---- MODULE Spec2Model ----
\* Model of the volume-discount function of
\* src/extensions/volume-logic/src/run.rs: one invocation of `function`
\* over a cart, stepped through its two loops.
EXTENDS Integers, Sequences, FiniteSets, TLC

\* ---------------------------------------------------------------- bounds
MaxLines == 2
MaxTiers == 2
MaxQty == 2

\* ---------------------------------------------------------------- values
\* Option<T>: None is the empty sequence, Some(x) the one-element sequence.
None == << >>
Some(x) == << x >>

Range(s) == { s[k] : k \in DOMAIN s }

SeqsUpTo(S, n) == UNION { [1..m -> S] : m \in 0..n }

Ids == { "gid://v1", "gid://v2" }
Labels == { "A", "B" }
Quantities == 1..MaxQty

\* A JSON value as serde_json sees it: its type tag and its payload.
JInt(n) == [t |-> "int", n |-> n, s |-> ""]
JFloat(n) == [t |-> "float", n |-> n, s |-> ""]
JStr(s) == [t |-> "str", n |-> 0, s |-> s]
JAbsent == [t |-> "absent", n |-> 0, s |-> ""]

\* One element of the JSON array: an object with the three keys of TierConfig.
JRow(q, d, l) == [qty |-> q, discount |-> d, label |-> l]

\* Rows that decode: qty an integer, discount any number, label a string.
GoodRows ==
    { JRow(JInt(q), d, JStr(l)) :
        q \in Quantities, d \in { JInt(10), JFloat(20) }, l \in Labels }

\* Rows that do not decode into a TierConfig.
BadRows ==
    { JRow(JStr("5"), JInt(10), JStr("A")),
      JRow(JFloat(1), JInt(10), JStr("A")),
      JRow(JInt(1), JAbsent, JStr("A")),
      JRow(JInt(1), JInt(10), JAbsent) }

Rows == GoodRows \cup BadRows

\* The text of the tiers field: not JSON at all, or a JSON array of rows.
NotJson == [kind |-> "invalid", rows |-> << >>]
JArray(rows) == [kind |-> "array", rows |-> rows]

Texts == { NotJson } \cup { JArray(r) : r \in SeqsUpTo(Rows, MaxTiers) }

\* ---------------------------------------------------------------- input
\* The reference of the metafield: a metaobject (with or without its tiers
\* field) or another kind of reference.
Metaobject(tiers) == [kind |-> "Metaobject", tiers |-> tiers]
OtherReference == [kind |-> "Other", tiers |-> None]
Metafield(reference) == [reference |-> reference]
TiersField(text) == [value |-> text]

\* variant.product.volume_discount for a product whose tiers text is `text`.
Configured(text) == Some(Metafield(Some(Metaobject(Some(TiersField(text))))))

\* The four ways the chain metafield -> reference -> metaobject -> field ends
\* early.
Unconfigured ==
    { None,
      Some(Metafield(None)),
      Some(Metafield(Some(OtherReference))),
      Some(Metafield(Some(Metaobject(None)))) }

ProductVariant(id, vd) ==
    [kind |-> "ProductVariant", id |-> id, product |-> [volume_discount |-> vd]]
CustomProduct ==
    [kind |-> "CustomProduct", id |-> "", product |-> [volume_discount |-> None]]

CartLine(m, q) == [merchandise |-> m, quantity |-> q]

LinesOver(texts) ==
    { CartLine(ProductVariant(id, vd), q) :
        id \in Ids, q \in Quantities,
        vd \in Unconfigured \cup { Configured(t) : t \in texts } }
    \cup { CartLine(CustomProduct, q) : q \in Quantities }

\* The two-tier schedule of the specification's examples, scaled to the
\* quantities of the model, and texts built from it.
LowRow == JRow(JInt(1), JInt(10), JStr("A"))
HighRow == JRow(JInt(MaxQty), JFloat(20), JStr("B"))
TieRow == JRow(JInt(1), JFloat(20), JStr("B"))
SampleTexts ==
    { NotJson,
      JArray(<< LowRow, HighRow >>),
      JArray(<< LowRow, TieRow >>),
      JArray(<< HighRow >>),
      JArray(<< LowRow, CHOOSE r \in BadRows : r.label = JAbsent >>) }

\* Carts of one line with any tiers text, and carts of several lines with the
\* sample texts.
Carts ==
    SeqsUpTo(LinesOver(Texts), 1) \cup SeqsUpTo(LinesOver(SampleTexts), MaxLines)

\* ---------------------------------------------------------------- state
VARIABLES
    cart,        \* input.cart.lines
    i,           \* number of lines the outer loop has taken
    config,      \* the decoded tiers of the current line
    j,           \* number of tiers the inner loop has taken
    best_tier,   \* Option<TierConfig>
    discounts,   \* the vector being built
    pc,          \* "lines", "tiers", "done"
    result       \* None until the function returns

vars == << cart, i, config, j, best_tier, discounts, pc, result >>

\* ---------------------------------------------------------------- functions
\* The chain of `if let` of steps 1 and 2: the tiers text of the line, if every
\* hop is present.
TiersText(line) ==
    LET m == line.merchandise IN
    IF m.kind # "ProductVariant" THEN None
    ELSE IF m.product.volume_discount = None THEN None
    ELSE LET metafield == m.product.volume_discount[1] IN
    IF metafield.reference = None THEN None
    ELSE LET reference == metafield.reference[1] IN
    IF reference.kind # "Metaobject" THEN None
    ELSE IF reference.tiers = None THEN None
    ELSE Some(reference.tiers[1].value)

\* Deserialize of TierConfig: qty: i64, discount: f64, label: String.
RowDecodes(row) ==
    /\ row.qty.t = "int"
    /\ row.discount.t \in { "int", "float" }
    /\ row.label.t = "str"

DecodeRow(row) ==
    [qty |-> row.qty.n, discount |-> row.discount.n, label |-> row.label.s]

\* A faulty ParseTiers: the rows that decode are kept, the others dropped.
ParseTiersSalvage(text) ==
    IF text.kind = "array"
    THEN LET good == SelectSeq(text.rows, RowDecodes)
         IN [k \in DOMAIN good |-> DecodeRow(good[k])]
    ELSE << >>

\* serde_json::from_str::<Vec<TierConfig>>(text).unwrap_or(vec![])
ParseTiers(text) ==
    IF text.kind = "array" /\ \A k \in DOMAIN text.rows : RowDecodes(text.rows[k])
    THEN [k \in DOMAIN text.rows |-> DecodeRow(text.rows[k])]
    ELSE << >>

\* A faulty Eligible: the threshold is reached one unit early.
EligibleOffByOne(quantity, tier) == quantity + 1 >= tier.qty

\* line.quantity >= tier.qty
Eligible(quantity, tier) == quantity >= tier.qty

\* Faulty forms of Replaces: the comparison reversed, the comparison admitting
\* equal thresholds, and the comparison left out.
ReplacesLower(tier, current_best) == tier.qty < current_best.qty
ReplacesOrTies(tier, current_best) == tier.qty >= current_best.qty
ReplacesAlways(tier, current_best) == TRUE

\* tier.qty > current_best.qty
Replaces(tier, current_best) == tier.qty > current_best.qty

\* One iteration of the inner loop on the running best.
StepBest(quantity, tier, best) ==
    IF Eligible(quantity, tier)
    THEN IF best # None
         THEN IF Replaces(tier, best[1]) THEN Some(tier) ELSE best
         ELSE Some(tier)
    ELSE best

\* output::Target of step 5.
TargetOf(id) == [product_variant |-> Some([id |-> id, quantity |-> None])]

\* A faulty BuildDiscount: the tier's discount given as a fixed amount.
BuildDiscountFixed(id, tier) ==
    [value |-> [percentage |-> None,
                fixed_amount |-> Some([value |-> tier.discount])],
     targets |-> << TargetOf(id) >>,
     message |-> Some(tier.label)]

\* output::Discount of step 5.
BuildDiscount(id, tier) ==
    [value |-> [percentage |-> Some([value |-> tier.discount]),
                fixed_amount |-> None],
     targets |-> << TargetOf(id) >>,
     message |-> Some(tier.label)]

\* Steps 4 as a whole: `for tier in config` folded from best_tier = None.
RECURSIVE FoldBest(_, _, _)
FoldBest(quantity, tiers, best) ==
    IF tiers = << >> THEN best
    ELSE FoldBest(quantity, Tail(tiers), StepBest(quantity, Head(tiers), best))

ResolveBest(quantity, tiers) == FoldBest(quantity, tiers, None)

\* Faulty forms of Push: the discount pushed twice, and pushed at the front.
PushTwice(ds, d) == Append(Append(ds, d), d)
PushFront(ds, d) == << d >> \o ds

\* discounts.push(d)
Push(ds, d) == Append(ds, d)

\* A faulty FunctionResult: another strategy tag.
FunctionResultFirst(ds) ==
    [ok |-> TRUE, discounts |-> ds, discount_application_strategy |-> "FIRST"]

\* Ok(output::FunctionResult { discounts, discount_application_strategy })
FunctionResult(ds) ==
    [ok |-> TRUE, discounts |-> ds, discount_application_strategy |-> "MAXIMUM"]

\* ---------------------------------------------------------------- actions
Init ==
    /\ cart \in Carts
    /\ i = 0
    /\ config = << >>
    /\ j = 0
    /\ best_tier = None
    /\ discounts = << >>
    /\ pc = "lines"
    /\ result = None

\* A faulty SkipLine: a line without configuration ends the outer loop.
SkipLineBreak ==
    /\ pc = "lines"
    /\ i < Len(cart)
    /\ TiersText(cart[i + 1]) = None
    /\ i' = Len(cart)
    /\ UNCHANGED << cart, config, j, best_tier, discounts, pc, result >>

\* The outer loop takes a line that fails one of the `if let` of steps 1, 2.
SkipLine ==
    /\ pc = "lines"
    /\ i < Len(cart)
    /\ TiersText(cart[i + 1]) = None
    /\ i' = i + 1
    /\ UNCHANGED << cart, config, j, best_tier, discounts, pc, result >>

\* The outer loop takes a line with a tiers field: steps 3 and the start of 4.
ParseLine ==
    /\ pc = "lines"
    /\ i < Len(cart)
    /\ TiersText(cart[i + 1]) # None
    /\ i' = i + 1
    /\ config' = ParseTiers(TiersText(cart[i + 1])[1])
    /\ j' = 0
    /\ best_tier' = None
    /\ pc' = "tiers"
    /\ UNCHANGED << cart, discounts, result >>

\* One iteration of `for tier in config`.
TierStep ==
    /\ pc = "tiers"
    /\ j < Len(config)
    /\ j' = j + 1
    /\ best_tier' = StepBest(cart[i].quantity, config[j + 1], best_tier)
    /\ UNCHANGED << cart, i, config, discounts, pc, result >>

\* Step 5 with a tier found: the discount is pushed.
ApplyDiscount ==
    /\ pc = "tiers"
    /\ j = Len(config)
    /\ best_tier # None
    /\ discounts' = Push(discounts, BuildDiscount(cart[i].merchandise.id, best_tier[1]))
    /\ config' = << >>
    /\ j' = 0
    /\ best_tier' = None
    /\ pc' = "lines"
    /\ UNCHANGED << cart, i, result >>

\* Step 5 with no tier found: the line ends without a discount.
NoDiscount ==
    /\ pc = "tiers"
    /\ j = Len(config)
    /\ best_tier = None
    /\ config' = << >>
    /\ j' = 0
    /\ pc' = "lines"
    /\ UNCHANGED << cart, i, best_tier, discounts, result >>

\* The outer loop is over: the function returns.
Return ==
    /\ pc = "lines"
    /\ i = Len(cart)
    /\ result' = Some(FunctionResult(discounts))
    /\ pc' = "done"
    /\ UNCHANGED << cart, i, config, j, best_tier, discounts >>

Next ==
    \/ SkipLine
    \/ ParseLine
    \/ TierStep
    \/ ApplyDiscount
    \/ NoDiscount
    \/ Return

Spec == Init /\ [][Next]_vars

\* ---------------------------------------------------------------- properties
\* The variant id the line's discount would target.
IdOf(line) == line.merchandise.id

\* The decoded schedule of a line that reaches step 3.
ScheduleOf(line) == ParseTiers(TiersText(line)[1])

\* The last element of a non-empty sequence.
Last(s) == s[Len(s)]

\* The step pushes one discount.
Emits == Len(discounts') = Len(discounts) + 1

\* The ids the discounts of ds target.
TargetIds(ds, id) ==
    { n \in DOMAIN ds : ds[n].targets[1].product_variant = Some([id |-> id, quantity |-> None]) }

\* The tiers text fails to decode as a whole: it is no JSON array, or one of
\* its rows is no tier object.
Malformed(text) ==
    \/ text.kind # "array"
    \/ \E k \in DOMAIN text.rows : ~RowDecodes(text.rows[k])

\* One of the hops merchandise -> metafield -> reference -> metaobject -> tiers
\* field is missing.
MissingConfig(line) ==
    \/ line.merchandise.kind # "ProductVariant"
    \/ line.merchandise.product.volume_discount = None
    \/ line.merchandise.product.volume_discount[1].reference = None
    \/ line.merchandise.product.volume_discount[1].reference[1].kind # "Metaobject"
    \/ line.merchandise.product.volume_discount[1].reference[1].tiers = None

\* The positions of the tiers of S a quantity q is eligible for.
Candidates(q, S) == { k \in DOMAIN S : q >= S[k].qty }

\* The positions of the candidates with the largest threshold.
TopCandidates(q, S) ==
    { k \in Candidates(q, S) : \A m \in Candidates(q, S) : S[m].qty <= S[k].qty }

\* The first position among the candidates with the largest threshold.
FirstTop(q, S) ==
    CHOOSE k \in TopCandidates(q, S) : \A m \in TopCandidates(q, S) : k <= m

\* The line qualifies: it has a tiers field whose schedule has a candidate.
Qualifies(line) ==
    /\ ~MissingConfig(line)
    /\ Candidates(line.quantity, ScheduleOf(line)) # {}

\* The discount a qualifying line is to get: the whole line at the percentage
\* and with the label of the first top candidate.
DiscountFor(line) ==
    LET S == ScheduleOf(line)
        t == S[FirstTop(line.quantity, S)]
    IN [value |-> [percentage |-> Some([value |-> t.discount]), fixed_amount |-> None],
        targets |-> << [product_variant |-> Some([id |-> IdOf(line), quantity |-> None])] >>,
        message |-> Some(t.label)]

\* The discounts of the qualifying lines of a cart, in cart order.
RECURSIVE ExpectedDiscounts(_)
ExpectedDiscounts(lines) ==
    IF lines = << >> THEN << >>
    ELSE IF Qualifies(Head(lines))
         THEN << DiscountFor(Head(lines)) >> \o ExpectedDiscounts(Tail(lines))
         ELSE ExpectedDiscounts(Tail(lines))

\* The permutations of a sequence.
PermutationsOf(S) ==
    { [k \in DOMAIN S |-> S[p[k]]] :
        p \in { f \in [DOMAIN S -> DOMAIN S] : \A a, b \in DOMAIN S : f[a] = f[b] => a = b } }

\* What a line of quantity q with schedule S emits: value and message, if any.
EmittedFor(q, S) ==
    LET best == ResolveBest(q, S)
    IN IF best = None THEN None
       ELSE LET d == BuildDiscount("", best[1]) IN Some(<< d.value, d.message >>)

\* C1: whenever a step emits a discount for the current line, the tier it is
\* built from is a member of the line's decoded schedule, the line's quantity
\* reaches its threshold, and no tier of the schedule the quantity reaches has
\* a larger threshold.
C1_HighestThreshold ==
    [][Emits =>
        /\ best_tier # None
        /\ LET t == best_tier[1]
               line == cart[i]
               S == ScheduleOf(line)
           IN /\ t \in Range(S)
              /\ line.quantity >= t.qty
              /\ \A t1 \in Range(S) : line.quantity >= t1.qty => ~(t1.qty > t.qty)
              /\ Last(discounts').value.percentage = Some([value |-> t.discount])
              /\ Last(discounts').message = Some(t.label)]_vars

\* C1 witness: a line whose schedule holds two tiers of different thresholds,
\* both reached by its quantity, has got its discount.
C1_Witness ==
    /\ pc = "lines" /\ i = 1 /\ Len(discounts) = 1
    /\ ~MissingConfig(cart[1])
    /\ \E a, b \in Candidates(cart[1].quantity, ScheduleOf(cart[1])) :
            ScheduleOf(cart[1])[a].qty > ScheduleOf(cart[1])[b].qty

\* C2 as stated: for every line of the cart, at most one discount targets the
\* line's variant id.
C2_OnePerVariantId ==
    \A k \in DOMAIN cart :
        cart[k].merchandise.kind = "ProductVariant"
            => Cardinality(TargetIds(discounts, IdOf(cart[k]))) <= 1

\* C2 amended: every line emits at most one discount: the discounts that target
\* a variant id are never more than the lines taken so far that carry that id,
\* and the discounts are never more than the lines taken.
C2_OnePerLine ==
    /\ Len(discounts) <= i
    /\ \A id \in Ids :
        Cardinality(TargetIds(discounts, id))
            <= Cardinality({ k \in 1..i : cart[k].merchandise.kind = "ProductVariant"
                                           /\ IdOf(cart[k]) = id })

\* C2 witness: two lines of the same variant id have both got a discount.
C2_Witness ==
    /\ pc = "done" /\ Len(cart) = 2 /\ Len(discounts) = 2
    /\ IdOf(cart[1]) = IdOf(cart[2])

\* C3: a tiers text that fails to decode as a whole, also when only some of its
\* rows are malformed, gives the empty schedule and no best tier; the discounts
\* are as many as the lines taken that qualify with a well-formed text, so a
\* line of malformed text gets none and the other lines get theirs; no error
\* is returned.
C3_MalformedIsEmpty ==
    /\ (pc = "tiers" /\ Malformed(TiersText(cart[i])[1]))
            => (config = << >> /\ best_tier = None)
    /\ (pc = "lines" \/ pc = "done")
            => Len(discounts)
                = Cardinality({ k \in 1..i : /\ Qualifies(cart[k])
                                              /\ ~Malformed(TiersText(cart[k])[1]) })
    /\ (pc = "done" => (i = Len(cart) /\ result # None /\ result[1].ok))

\* C3 witness: the function has returned for a cart whose first line has a text
\* with a well-formed row the quantity reaches and a malformed row, and whose
\* second line has got a discount.
C3_Witness ==
    /\ pc = "done" /\ Len(cart) = 2 /\ Len(discounts) = 1
    /\ ~MissingConfig(cart[1])
    /\ LET text == TiersText(cart[1])[1]
       IN /\ text.kind = "array"
          /\ \E a, b \in DOMAIN text.rows :
                /\ ~RowDecodes(text.rows[a])
                /\ RowDecodes(text.rows[b])
                /\ cart[1].quantity >= text.rows[b].qty.n
    /\ Qualifies(cart[2])

\* C4: while a line whose quantity is below the threshold of every tier of its
\* decoded schedule is being processed, no discount is pushed and there is no
\* best tier.
C4_NoCandidate ==
    [][(pc = "tiers" /\ \A t \in Range(ScheduleOf(cart[i])) : cart[i].quantity < t.qty)
        => (discounts' = discounts /\ best_tier = None)]_vars

\* C4 witness: a line with a non-empty schedule, every threshold of which is
\* above its quantity, has been processed and has no discount.
C4_Witness ==
    /\ pc = "lines" /\ i = 1 /\ discounts = << >>
    /\ ~MissingConfig(cart[1])
    /\ ScheduleOf(cart[1]) # << >>
    /\ \A t \in Range(ScheduleOf(cart[1])) : cart[1].quantity < t.qty

\* C5: between lines and at the return, the discounts are exactly the discounts
\* of the qualifying lines taken so far, in the order of those lines in the cart.
C5_CartOrder ==
    /\ (pc = "lines" \/ pc = "done")
            => discounts = ExpectedDiscounts(SubSeq(cart, 1, i))
    /\ pc = "done" => result[1].discounts = ExpectedDiscounts(cart)

\* C5 witness: the function has returned two different discounts for a cart of
\* two qualifying lines.
C5_Witness ==
    /\ pc = "done" /\ Len(cart) = 2 /\ Len(result[1].discounts) = 2
    /\ result[1].discounts[1] # result[1].discounts[2]

\* The steps the function still has to take, at most.
StepsLeft ==
    IF pc = "done" THEN 0
    ELSE 1 + (Len(cart) - i) * (MaxTiers + 2)
           + (IF pc = "tiers" THEN 1 + (Len(config) - j) ELSE 0)

\* C6: the function never gets stuck before it returns, every step brings the
\* return nearer, and what it returns is a successful response with the strategy
\* MAXIMUM, whose list of discounts is empty for the empty cart.
C6_Total ==
    /\ [](pc = "done" \/ ENABLED Next)
    /\ [][StepsLeft' < StepsLeft]_vars
    /\ [](pc = "done" =>
            /\ result # None
            /\ result[1].ok
            /\ result[1].discount_application_strategy = "MAXIMUM"
            /\ (cart = << >> => result[1].discounts = << >>))
    /\ [](pc # "done" => result = None)

\* C6 witness: the function has returned for a cart with a line of malformed
\* text and a line of missing configuration.
C6_Witness ==
    /\ pc = "done" /\ result # None
    /\ \E a, b \in DOMAIN cart :
        /\ MissingConfig(cart[a])
        /\ ~MissingConfig(cart[b]) /\ Malformed(TiersText(cart[b])[1])

\* The line has every hop down to its tiers field.
HasConfig(line) == ~MissingConfig(line)

\* C7: the step that takes a line with a missing hop only moves on to the next
\* line: it leaves the discounts as they are, stays in the outer loop and
\* returns nothing; and the discounts returned are those of the cart without
\* its lines with a missing hop.
C7_MissingSkipped ==
    /\ [][(pc = "lines" /\ i < Len(cart) /\ MissingConfig(cart[i + 1]))
            => /\ i' = i + 1
               /\ pc' = "lines"
               /\ discounts' = discounts
               /\ result' = None]_vars
    /\ [](pc = "done" =>
            result[1].discounts = ExpectedDiscounts(SelectSeq(cart, HasConfig)))

\* C7 witness: the function has returned one discount for a cart whose first
\* line misses a hop and whose second line qualifies.
C7_Witness ==
    /\ pc = "done" /\ Len(cart) = 2 /\ Len(discounts) = 1
    /\ MissingConfig(cart[1])
    /\ Qualifies(cart[2])

\* C8: in the inner loop the best tier is the first of the tiers taken so far
\* that have the largest threshold among those the quantity reaches, and none
\* if the quantity reaches no tier taken so far.
C8_FirstWins ==
    pc = "tiers" =>
        LET seen == SubSeq(config, 1, j)
            q == cart[i].quantity
        IN IF Candidates(q, seen) = {} THEN best_tier = None
           ELSE best_tier = Some(seen[FirstTop(q, seen)])

\* C8 witness: the inner loop has ended on a schedule of two different tiers of
\* the same threshold, which the quantity reaches, with the first as the best.
C8_Witness ==
    /\ pc = "tiers" /\ j = Len(config) /\ Len(config) = 2
    /\ config[1].qty = config[2].qty
    /\ config[1] # config[2]
    /\ cart[i].quantity >= config[1].qty
    /\ best_tier = Some(config[1])

\* C9: the discount a step emits has one target, the product variant of the
\* line's variant id with no quantity; its value is the percentage of the
\* selected tier with no fixed amount; its message is the selected tier's label.
C9_DiscountShape ==
    [][Emits =>
        LET d == Last(discounts')
            t == best_tier[1]
        IN /\ discounts' = Append(discounts, d)
           /\ Len(d.targets) = 1
           /\ d.targets[1].product_variant # None
           /\ d.targets[1].product_variant[1].id = cart[i].merchandise.id
           /\ d.targets[1].product_variant[1].quantity = None
           /\ d.value.percentage = Some([value |-> t.discount])
           /\ d.value.fixed_amount = None
           /\ d.message = Some(t.label)
           /\ t = ScheduleOf(cart[i])[FirstTop(cart[i].quantity, ScheduleOf(cart[i]))]]_vars

\* C9 witness: the second tier of a two-tier schedule has been selected and its
\* discount emitted (the example of the specification: the higher threshold of
\* the two is reached).
C9_Witness ==
    /\ pc = "lines" /\ i = 1 /\ Len(discounts) = 1
    /\ ~MissingConfig(cart[1])
    /\ LET S == ScheduleOf(cart[1])
       IN /\ Len(S) = 2
          /\ S[1].qty < S[2].qty
          /\ S[1].discount # S[2].discount
          /\ S[1].label # S[2].label
          /\ cart[1].quantity >= S[2].qty
          /\ discounts[1].message = Some(S[2].label)

\* C10 as stated: at the end of the inner loop, the selection on every
\* permutation of the schedule emits the same value and message as the
\* selection the loop has made.
C10_OrderInsignificant ==
    (pc = "tiers" /\ j = Len(config)) =>
        /\ best_tier = ResolveBest(cart[i].quantity, config)
        /\ \A P \in PermutationsOf(config) :
              EmittedFor(cart[i].quantity, P) = EmittedFor(cart[i].quantity, config)

\* C10 amended: the same, for the schedules in which the tiers of the largest
\* threshold the quantity reaches all carry the same discount and label.
C10_OrderInsignificantUpToTies ==
    (/\ pc = "tiers" /\ j = Len(config)
     /\ \A a, b \in TopCandidates(cart[i].quantity, config) :
            /\ config[a].discount = config[b].discount
            /\ config[a].label = config[b].label) =>
        /\ best_tier = ResolveBest(cart[i].quantity, config)
        /\ \A P \in PermutationsOf(config) :
              EmittedFor(cart[i].quantity, P) = EmittedFor(cart[i].quantity, config)

\* C10 witness: the inner loop has ended on a schedule of two tiers of
\* different thresholds and discounts, both reached, the larger one first.
C10_Witness ==
    /\ pc = "tiers" /\ j = Len(config) /\ Len(config) = 2
    /\ config[1].qty > config[2].qty
    /\ config[1].discount # config[2].discount
    /\ cart[i].quantity >= config[1].qty
    /\ best_tier = Some(config[1])

====
